---------------------------- MODULE Spec2Model ----------------------------
(***************************************************************************)
(* State-machine model of libcamera/src/control.rs: the typed access layer *)
(* over the native control lists, control info maps and list cursors.      *)
(*                                                                         *)
(* The native library (libcamera_sys) and the value marshaller             *)
(* (control_value.rs) are not part of control.rs; they are modelled from   *)
(* the interface contract the specification gives for them.  A native      *)
(* pointer is modelled by what it points at: 0 is the null pointer, a      *)
(* positive number is the position of the value inside its container.      *)
(***************************************************************************)
EXTENDS Integers, Sequences, FiniteSets, TLC

(***************************************************************************)
(* Bounds of the model.                                                    *)
(***************************************************************************)
MaxVal == 1        \* payloads range over 0..MaxVal
MaxIters == 1      \* list iterators alive at the same time
MaxValues == 2     \* length of a native allowed-values array

Payloads == 0..MaxVal

(***************************************************************************)
(* Typed entries (trait ControlEntry): a fixed identifier ID and the tag   *)
(* of the ControlValue variant the type converts to and from.  Control and *)
(* Property are the two capability refinements.                            *)
(***************************************************************************)
Controls ==
    { [name |-> "AeEnable",     ID |-> 1, tag |-> "Bool"],
      [name |-> "ExposureTime", ID |-> 2, tag |-> "Int32"] }

Properties ==
    { [name |-> "Location", ID |-> 1, tag |-> "Int32"],
      [name |-> "Rotation", ID |-> 2, tag |-> "Int64"] }

Ids == {T.ID : T \in Controls \cup Properties}

(***************************************************************************)
(* Results.  Panic is a Rust panic (Option::unwrap / Result::unwrap on the *)
(* failing case): the call does not return a value.                        *)
(***************************************************************************)
Ok(v) == [kind |-> "Ok", val |-> v]
NotFound(id) == [kind |-> "NotFound", id |-> id]
ValueError(e) == [kind |-> "ValueError", err |-> e]
Panic == [kind |-> "Panic"]
None == [kind |-> "None"]
Some(v) == [kind |-> "Some", val |-> v]

(***************************************************************************)
(* ControlValue and its native representation.  The native value carries   *)
(* a numeric type code; the ControlValue carries the variant tag.          *)
(***************************************************************************)
TypeCode(tag) ==
    CASE tag = "Bool"  -> 1
      [] tag = "Int32" -> 3
      [] tag = "Int64" -> 4
      [] OTHER         -> 0

KnownCodes == {1, 3, 4}

TagOf(code) ==
    CASE code = 1 -> "Bool"
      [] code = 3 -> "Int32"
      [] code = 4 -> "Int64"
      [] OTHER    -> "None"

\* Native values a list or an info object can hold: every known type code,
\* and one code the marshaller does not recognise.
NativeValues == [type : KnownCodes, data : Payloads] \cup {[type |-> 9, data |-> 0]}

\* ControlValue::read: decode a native value handle; fails on an
\* unrecognised type code.  The handle is only read.
ControlValue_read(nv) ==
    IF nv.type \in KnownCodes
    THEN Ok([tag |-> TagOf(nv.type), val |-> nv.data])
    ELSE ValueError([unknownType |-> nv.type])

\* ControlValue::write: encode into an already allocated native handle.
ControlValue_write(cv) == [type |-> TypeCode(cv.tag), data |-> cv.val]

\* Into<ControlValue> for a typed entry T holding v.
into(T, v) == [tag |-> T.tag, val |-> v]

\* TryFrom<ControlValue> for a typed entry T: fails on a tag mismatch.
try_from(T, cv) ==
    IF cv.tag = T.tag
    THEN Ok(cv.val)
    ELSE ValueError([expected |-> T.tag, found |-> cv.tag])

(***************************************************************************)
(* The native list: a sequence of (id, native value) entries in native     *)
(* iteration order, with at most one entry per id, and the set of ids the  *)
(* collection accepts writes for.                                          *)
(***************************************************************************)
Entry(id, nv) == [id |-> id, val |-> nv]

IndexOf(contents, id) ==
    IF \E k \in 1..Len(contents) : contents[k].id = id
    THEN CHOOSE k \in 1..Len(contents) : contents[k].id = id
    ELSE 0

\* libcamera_control_list_get: pointer to the value stored under id, or null.
libcamera_control_list_get(contents, id) == IndexOf(contents, id)

InsertAt(s, k, e) == SubSeq(s, 1, k - 1) \o <<e>> \o SubSeq(s, k, Len(s))

\* libcamera_control_list_set: the contents the native collection may hold
\* afterwards.  An id it does not accept is ignored without a signal; an
\* existing entry is overwritten in place; a new entry lands wherever the
\* native container puts it.
libcamera_control_list_set(lst, id, nv) ==
    IF id \notin lst.accepts
    THEN {lst.contents}
    ELSE IF IndexOf(lst.contents, id) # 0
         THEN {[lst.contents EXCEPT ![IndexOf(lst.contents, id)] = Entry(id, nv)]}
         ELSE {InsertAt(lst.contents, k, Entry(id, nv)) : k \in 1..(Len(lst.contents) + 1)}


(***************************************************************************)
(* State.                                                                  *)
(***************************************************************************)
Lists == {"owned", "borrowed", "props"}

\* "owned" is the ControlList made by ControlList::new(); "borrowed" is a
\* ControlList obtained from a native pointer (ControlList::from_ptr);
\* "props" is a PropertyList (PropertyList::from_ptr).
ListKind(l) == IF l = "props" THEN "PropertyList" ELSE "ControlList"
IsOwned(l) == l = "owned"

IterSlots == 1..MaxIters

VARIABLES
    lists,          \* native collections: [alive, contents, accepts]
    owner,          \* the wrapper this layer holds: "absent", "none", "held", "dropped"
    destroyed,      \* calls of libcamera_control_list_destroy, per list
    iters,          \* ControlListRefIterator objects and their native cursors
    iterDestroyed,  \* calls of libcamera_control_list_iter_destroy, per cursor
    liveValues,     \* transient native value handles and arrays not yet released
    infoMap,        \* native ControlInfoMap: id -> info, or NoInfo
    last,           \* the last operation and what it returned
    lastSet,        \* history: the value the last returned set stored, per list and id
    prevRun,        \* history: what the last complete iteration yielded, per list
    faults          \* whether the native library hands out null handles

vars == <<lists, owner, destroyed, iters, iterDestroyed, liveValues, infoMap, last, lastSet,
          prevRun, faults>>

\* What a native call that returns a handle can return: the handle (1), and
\* null (0) when the library is out of resources.
HandleOutcomes == IF faults THEN {0, 1} ELSE {1}
NullOutcomes == IF faults THEN BOOLEAN ELSE {FALSE}

NoSet == [set |-> FALSE]
NoRun == [done |-> FALSE]
RunOf(pairs) == [done |-> TRUE, pairs |-> pairs]
WasSet(v) == [set |-> TRUE, val |-> v]

UnbornIter == [state |-> "unborn", list |-> "owned", pos |-> 0, yielded |-> <<>>,
               reused |-> FALSE, snapshot |-> <<>>]

\* Some iterator is alive over list l: it holds the shared borrow of l.
Borrowed(l) == \E i \in IterSlots : iters[i].state = "active" /\ iters[i].list = l

(***************************************************************************)
(* ControlList::get / PropertyList::get.                                   *)
(***************************************************************************)
\* Variants of get with a plausible slip, used to test the claims below:
\* the wrong id in the error, and a value taken without the tag check.
ControlList_get_LosesId(lst, C) ==
    LET val_ptr == libcamera_control_list_get(lst.contents, C.ID) IN
    IF val_ptr = 0
    THEN NotFound(0)
    ELSE LET val == ControlValue_read(lst.contents[val_ptr].val) IN
         IF val.kind # "Ok" THEN val ELSE try_from(C, val.val)

ControlList_get_Coerces(lst, C) ==
    LET val_ptr == libcamera_control_list_get(lst.contents, C.ID) IN
    IF val_ptr = 0
    THEN NotFound(C.ID)
    ELSE LET val == ControlValue_read(lst.contents[val_ptr].val) IN
         IF val.kind # "Ok" THEN Ok(0) ELSE Ok(val.val.val)

ControlList_get(lst, C) ==
    LET val_ptr == libcamera_control_list_get(lst.contents, C.ID) IN
    IF val_ptr = 0
    THEN NotFound(C.ID)
    ELSE LET val == ControlValue_read(lst.contents[val_ptr].val) IN
         IF val.kind # "Ok" THEN val ELSE try_from(C, val.val)

PropertyList_get(lst, C) ==
    LET val_ptr == libcamera_control_list_get(lst.contents, C.ID) IN
    IF val_ptr = 0
    THEN NotFound(C.ID)
    ELSE LET val == ControlValue_read(lst.contents[val_ptr].val) IN
         IF val.kind # "Ok" THEN val ELSE try_from(C, val.val)

\* A variant of get with a plausible slip: the value pointer is destroyed
\* after the read, as the handle of ControlInfo::min is; the entry is left
\* holding a dead value.
ControlListGet_Destroys(l, C) ==
    /\ ListKind(l) = "ControlList"
    /\ owner[l] = "held"
    /\ last' = [op |-> "get", list |-> l, id |-> C.ID, res |-> ControlList_get(lists[l], C)]
    /\ LET val_ptr == libcamera_control_list_get(lists[l].contents, C.ID) IN
       lists' = IF val_ptr = 0
                THEN lists
                ELSE [lists EXCEPT ![l].contents[val_ptr].val = [type |-> 9, data |-> 0]]
    /\ UNCHANGED <<owner, destroyed, iters, iterDestroyed, liveValues, infoMap, lastSet, prevRun, faults>>

ControlListGet(l, C) ==
    /\ ListKind(l) = "ControlList"
    /\ owner[l] = "held"
    /\ last' = [op |-> "get", list |-> l, id |-> C.ID, res |-> ControlList_get(lists[l], C)]
    /\ UNCHANGED <<lists, owner, destroyed, iters, iterDestroyed, liveValues, infoMap, lastSet, prevRun, faults>>

PropertyListGet(l, C) ==
    /\ ListKind(l) = "PropertyList"
    /\ owner[l] = "held"
    /\ last' = [op |-> "get", list |-> l, id |-> C.ID, res |-> PropertyList_get(lists[l], C)]
    /\ UNCHANGED <<lists, owner, destroyed, iters, iterDestroyed, liveValues, infoMap, lastSet, prevRun, faults>>

(***************************************************************************)
(* ControlList::set / PropertyList::set.  An outcome is the result, the    *)
(* contents of the native collection afterwards and the value handles the  *)
(* call created and released.  libcamera_control_value_create              *)
(* returns a handle (1) or null (0); NonNull::new(..).unwrap() panics on   *)
(* null before anything is written.                                        *)
(***************************************************************************)

\* Variants of set with a plausible slip: the value handle is stored
\* without being written, and a confirming read turns a rejected write into
\* an error.
ControlList_set_NoWrite(lst, C, v) ==
    UNION { IF val_ptr = 0
            THEN {[res |-> Panic, contents |-> lst.contents, created |-> 0, released |-> 0]}
            ELSE {[res |-> Ok(<<>>), contents |-> c, created |-> 1, released |-> 1] :
                     c \in libcamera_control_list_set(lst, C.ID, [type |-> 0, data |-> 0])}
          : val_ptr \in HandleOutcomes }

ControlList_set_Confirms(lst, C, v) ==
    LET ctrl_val == into(C, v) IN
    UNION { IF val_ptr = 0
            THEN {[res |-> Panic, contents |-> lst.contents, created |-> 0, released |-> 0]}
            ELSE {[res |-> IF libcamera_control_list_get(c, C.ID) = 0
                           THEN NotFound(C.ID) ELSE Ok(<<>>),
                   contents |-> c, created |-> 1, released |-> 1] :
                     c \in libcamera_control_list_set(lst, C.ID, ControlValue_write(ctrl_val))}
          : val_ptr \in HandleOutcomes }

\* A variant of set with a plausible slip: the native set is given the
\* identifier of another entry.
ControlList_set_WrongId(lst, C, v) ==
    LET ctrl_val == into(C, v)
        other == CHOOSE id \in Ids : id # C.ID
    IN
    UNION { IF val_ptr = 0
            THEN {[res |-> Panic, contents |-> lst.contents, created |-> 0, released |-> 0]}
            ELSE {[res |-> Ok(<<>>), contents |-> c, created |-> 1, released |-> 1] :
                     c \in libcamera_control_list_set(lst, other, ControlValue_write(ctrl_val))}
          : val_ptr \in HandleOutcomes }

ControlList_set(lst, C, v) ==
    LET ctrl_val == into(C, v) IN
    UNION { IF val_ptr = 0
            THEN {[res |-> Panic, contents |-> lst.contents, created |-> 0, released |-> 0]}
            ELSE {[res |-> Ok(<<>>), contents |-> c, created |-> 1, released |-> 1] :
                     c \in libcamera_control_list_set(lst, C.ID, ControlValue_write(ctrl_val))}
          : val_ptr \in HandleOutcomes }

\* A variant of PropertyList::set with a plausible slip: the value handle
\* is not destroyed.
PropertyList_set_KeepsHandle(lst, C, v) ==
    LET ctrl_val == into(C, v) IN
    UNION { IF val_ptr = 0
            THEN {[res |-> Panic, contents |-> lst.contents, created |-> 0, released |-> 0]}
            ELSE {[res |-> Ok(<<>>), contents |-> c, created |-> 1, released |-> 0] :
                     c \in libcamera_control_list_set(lst, C.ID, ControlValue_write(ctrl_val))}
          : val_ptr \in HandleOutcomes }

PropertyList_set(lst, C, v) ==
    LET ctrl_val == into(C, v) IN
    UNION { IF val_ptr = 0
            THEN {[res |-> Panic, contents |-> lst.contents, created |-> 0, released |-> 0]}
            ELSE {[res |-> Ok(<<>>), contents |-> c, created |-> 1, released |-> 1] :
                     c \in libcamera_control_list_set(lst, C.ID, ControlValue_write(ctrl_val))}
          : val_ptr \in HandleOutcomes }

\* set takes &mut self: no iterator borrows the list while it runs.
ApplySet(l, C, v, out) ==
    /\ lists' = [lists EXCEPT ![l].contents = out.contents]
    /\ liveValues' = liveValues + out.created - out.released
    /\ last' = [op |-> "set", list |-> l, id |-> C.ID, res |-> out.res,
                created |-> out.created, released |-> out.released]
    /\ lastSet' = IF out.res.kind = "Ok"
                  THEN [lastSet EXCEPT ![l][C.ID] = WasSet(v)]
                  ELSE lastSet
    /\ prevRun' = IF out.res = Panic THEN prevRun ELSE [prevRun EXCEPT ![l] = NoRun]
    /\ UNCHANGED <<owner, destroyed, iters, iterDestroyed, infoMap, faults>>

\* A variant of set with a plausible slip: set takes &self, so it can be
\* called while an iterator borrows the list.
ControlListSet_Shared(l, C, v) ==
    /\ ListKind(l) = "ControlList"
    /\ owner[l] = "held"
    /\ \E out \in ControlList_set(lists[l], C, v) : ApplySet(l, C, v, out)

ControlListSet(l, C, v) ==
    /\ ListKind(l) = "ControlList"
    /\ owner[l] = "held"
    /\ ~Borrowed(l)
    /\ \E out \in ControlList_set(lists[l], C, v) : ApplySet(l, C, v, out)

PropertyListSet(l, C, v) ==
    /\ ListKind(l) = "PropertyList"
    /\ owner[l] = "held"
    /\ ~Borrowed(l)
    /\ \E out \in PropertyList_set(lists[l], C, v) : ApplySet(l, C, v, out)

(***************************************************************************)
(* IntoIterator for &ControlList / &PropertyList.  libcamera_control_list_ *)
(* iter returns a cursor at the first entry (1) or null (0); the unwrap    *)
(* panics on null and no iterator exists.                                  *)
(***************************************************************************)
ControlList_into_iter(l, it) ==
    IF it = 0
    THEN [res |-> Panic, iter |-> UnbornIter]
    ELSE [res |-> Ok(<<>>),
          iter |-> [state |-> "active", list |-> l, pos |-> it, yielded |-> <<>>,
                    reused |-> FALSE, snapshot |-> <<>>]]

PropertyList_into_iter(l, it) ==
    IF it = 0
    THEN [res |-> Panic, iter |-> UnbornIter]
    ELSE [res |-> Ok(<<>>),
          iter |-> [state |-> "active", list |-> l, pos |-> it, yielded |-> <<>>,
                    reused |-> FALSE, snapshot |-> <<>>]]

\* A place for the next iterator object the program creates: the first one
\* that holds no live iterator.
FreshIter(i) == iters[i].state # "active" /\ \A j \in 1..(i - 1) : iters[j].state = "active"

ControlListIntoIter(l, i) ==
    /\ ListKind(l) = "ControlList"
    /\ owner[l] = "held"
    /\ FreshIter(i)
    /\ \E it \in HandleOutcomes :
         LET out == ControlList_into_iter(l, it) IN
         /\ iters' = [iters EXCEPT ![i] =
                         IF it = 0 THEN @
                         ELSE [out.iter EXCEPT !.reused = (iters[i].state = "dropped"),
                                              !.snapshot = lists[l].contents]]
         /\ iterDestroyed' = [iterDestroyed EXCEPT ![i] = IF it = 0 THEN @ ELSE 0]
         /\ last' = [op |-> "into_iter", list |-> l, id |-> 0, res |-> out.res]
    /\ UNCHANGED <<lists, owner, destroyed, liveValues, infoMap, lastSet, prevRun, faults>>

PropertyListIntoIter(l, i) ==
    /\ ListKind(l) = "PropertyList"
    /\ owner[l] = "held"
    /\ FreshIter(i)
    /\ \E it \in HandleOutcomes :
         LET out == PropertyList_into_iter(l, it) IN
         /\ iters' = [iters EXCEPT ![i] =
                         IF it = 0 THEN @
                         ELSE [out.iter EXCEPT !.reused = (iters[i].state = "dropped"),
                                              !.snapshot = lists[l].contents]]
         /\ iterDestroyed' = [iterDestroyed EXCEPT ![i] = IF it = 0 THEN @ ELSE 0]
         /\ last' = [op |-> "into_iter", list |-> l, id |-> 0, res |-> out.res]
    /\ UNCHANGED <<lists, owner, destroyed, liveValues, infoMap, lastSet, prevRun, faults>>

(***************************************************************************)
(* ControlListRefIterator::next.  The native cursor is the position pos in *)
(* the list's contents; libcamera_control_list_iter_end holds past the     *)
(* last entry.  libcamera_control_list_iter_value returns the pointer to   *)
(* the current value (wellFormed) or null; a null pointer and a value that *)
(* fails to decode both panic in an unwrap, before the cursor is advanced. *)
(***************************************************************************)
libcamera_control_list_iter_end(contents, pos) == pos > Len(contents)

\* A variant of next with a plausible slip: the cursor is advanced twice.
ControlListRefIterator_next_Skips(it, contents, valueIsNull) ==
    IF libcamera_control_list_iter_end(contents, it.pos)
    THEN [res |-> None, iter |-> it]
    ELSE LET id == contents[it.pos].id
             val == ControlValue_read(contents[it.pos].val)
         IN  IF valueIsNull \/ val.kind # "Ok"
             THEN [res |-> Panic, iter |-> it]
             ELSE [res |-> Some(<<id, val.val>>),
                   iter |-> [it EXCEPT !.pos = @ + 2,
                                       !.yielded = Append(@, <<id, val.val>>)]]

\* A variant of next with a plausible slip: the cursor is advanced before
\* the value is decoded.
ControlListRefIterator_next_AdvancesFirst(it, contents, valueIsNull) ==
    IF libcamera_control_list_iter_end(contents, it.pos)
    THEN [res |-> None, iter |-> it]
    ELSE LET id == contents[it.pos].id
             val == ControlValue_read(contents[it.pos].val)
         IN  IF valueIsNull \/ val.kind # "Ok"
             THEN [res |-> Panic, iter |-> [it EXCEPT !.pos = @ + 1]]
             ELSE [res |-> Some(<<id, val.val>>),
                   iter |-> [it EXCEPT !.pos = @ + 1,
                                       !.yielded = Append(@, <<id, val.val>>)]]

\* A variant of next with a plausible slip: at the end the cursor is rewound
\* to the first entry.
ControlListRefIterator_next_Restarts(it, contents, valueIsNull) ==
    IF libcamera_control_list_iter_end(contents, it.pos)
    THEN [res |-> None, iter |-> [it EXCEPT !.pos = 1]]
    ELSE LET id == contents[it.pos].id
             val == ControlValue_read(contents[it.pos].val)
         IN  IF valueIsNull \/ val.kind # "Ok"
             THEN [res |-> Panic, iter |-> it]
             ELSE [res |-> Some(<<id, val.val>>),
                   iter |-> [it EXCEPT !.pos = @ + 1,
                                       !.yielded = Append(@, <<id, val.val>>)]]

ControlListRefIterator_next(it, contents, valueIsNull) ==
    IF libcamera_control_list_iter_end(contents, it.pos)
    THEN [res |-> None, iter |-> it]
    ELSE LET id == contents[it.pos].id
             val == ControlValue_read(contents[it.pos].val)
         IN  IF valueIsNull \/ val.kind # "Ok"
             THEN [res |-> Panic, iter |-> it]
             ELSE [res |-> Some(<<id, val.val>>),
                   iter |-> [it EXCEPT !.pos = @ + 1,
                                       !.yielded = Append(@, <<id, val.val>>)]]

\* A variant of next with a plausible slip: the iterator consumes the list,
\* removing each entry it yields and leaving the cursor at the front.
IteratorNext_Drains(i) ==
    /\ iters[i].state = "active"
    /\ \E valueIsNull \in NullOutcomes :
         LET l == iters[i].list
             contents == lists[l].contents
             out == ControlListRefIterator_next(iters[i], contents, valueIsNull)
         IN
         /\ iters' = [iters EXCEPT ![i] = [out.iter EXCEPT !.pos = iters[i].pos]]
         /\ lists' = IF out.res.kind = "Some"
                     THEN [lists EXCEPT ![l].contents =
                             SubSeq(contents, 1, iters[i].pos - 1)
                               \o SubSeq(contents, iters[i].pos + 1, Len(contents))]
                     ELSE lists
         /\ last' = [op |-> "next", list |-> l, id |-> i, res |-> out.res]
    /\ UNCHANGED <<owner, destroyed, iterDestroyed, liveValues, infoMap, lastSet, prevRun, faults>>

IteratorNext(i) ==
    /\ iters[i].state = "active"
    /\ \E valueIsNull \in NullOutcomes :
         LET out == ControlListRefIterator_next(iters[i], lists[iters[i].list].contents,
                                                valueIsNull) IN
         /\ iters' = [iters EXCEPT ![i] = out.iter]
         /\ last' = [op |-> "next", list |-> iters[i].list, id |-> i, res |-> out.res]
    /\ UNCHANGED <<lists, owner, destroyed, iterDestroyed, liveValues, infoMap, lastSet, prevRun, faults>>

(***************************************************************************)
(* Drop for ControlListRefIterator: the number of                          *)
(* libcamera_control_list_iter_destroy calls made on the cursor.           *)
(***************************************************************************)
\* A variant of drop with a plausible slip: the cursor is not destroyed.
ControlListRefIterator_drop_Leaks(n) == n

ControlListRefIterator_drop(n) == n + 1

\* History: where the iterator stands when it is dropped.
IterPhase(i) ==
    IF last.op = "next" /\ last.id = i /\ last.res = Panic THEN "unwinding"
    ELSE IF iters[i].pos > Len(lists[iters[i].list].contents) THEN "exhausted"
    ELSE IF iters[i].yielded = <<>> THEN "fresh"
    ELSE "partial"

\* History: the iterator is dropped right after its next() returned None,
\* as at the end of a for loop: a complete iteration.
CompletedRun(i) == last.op = "next" /\ last.id = i /\ last.res = None

IteratorDrop(i) ==
    /\ iters[i].state = "active"
    /\ iters' = [iters EXCEPT ![i] = [UnbornIter EXCEPT !.state = "dropped",
                                                        !.list = iters[i].list]]
    /\ iterDestroyed' = [iterDestroyed EXCEPT ![i] = ControlListRefIterator_drop(@)]
    /\ last' = [op |-> "drop_iter", list |-> iters[i].list, id |-> i,
                res |-> Ok(<<>>), phase |-> IterPhase(i)]
    /\ prevRun' = IF CompletedRun(i)
                  THEN [prevRun EXCEPT ![iters[i].list] = RunOf(iters[i].yielded)]
                  ELSE prevRun
    /\ UNCHANGED <<lists, owner, destroyed, liveValues, infoMap, lastSet, faults>>

(***************************************************************************)
(* Ownership.  ControlList::new() returns a UniquePtr<ControlList>, which  *)
(* calls ptr_new when made and ptr_drop when dropped (utils.rs).  A list   *)
(* obtained by from_ptr is a plain reference: nothing runs when it goes    *)
(* out of scope.                                                           *)
(***************************************************************************)
\* libcamera_control_list_create: an empty collection; no validator is
\* attached, so it accepts every id.
ControlList_ptr_new == [alive |-> TRUE, contents |-> <<>>, accepts |-> Ids]

\* A variant of ptr_drop with a plausible slip: the collection is not
\* destroyed.
ControlList_ptr_drop_Leaks(n) == n

\* libcamera_control_list_destroy calls made on the collection.
ControlList_ptr_drop(n) == n + 1

ControlListNew(l) ==
    /\ IsOwned(l)
    /\ owner[l] = "none"
    /\ lists' = [lists EXCEPT ![l] = ControlList_ptr_new]
    /\ owner' = [owner EXCEPT ![l] = "held"]
    /\ last' = [op |-> "new", list |-> l, id |-> 0, res |-> Ok(<<>>)]
    /\ UNCHANGED <<destroyed, iters, iterDestroyed, liveValues, infoMap, lastSet, prevRun, faults>>

\* The owner's teardown; an iterator borrowing the list cannot be alive.
UniquePtrDrop(l) ==
    /\ IsOwned(l)
    /\ owner[l] = "held"
    /\ ~Borrowed(l)
    /\ destroyed' = [destroyed EXCEPT ![l] = ControlList_ptr_drop(@)]
    /\ lists' = [lists EXCEPT ![l].alive = (destroyed'[l] = 0)]
    /\ owner' = [owner EXCEPT ![l] = "dropped"]
    /\ last' = [op |-> "drop_list", list |-> l, id |-> 0, res |-> Ok(<<>>)]
    /\ UNCHANGED <<iters, iterDestroyed, liveValues, infoMap, lastSet, prevRun, faults>>

\* The scope of a borrowed list ends: no native call is made.
BorrowEnd(l) ==
    /\ ~IsOwned(l)
    /\ owner[l] = "held"
    /\ ~Borrowed(l)
    /\ owner' = [owner EXCEPT ![l] = "dropped"]
    /\ last' = [op |-> "end_borrow", list |-> l, id |-> 0, res |-> Ok(<<>>)]
    /\ UNCHANGED <<lists, destroyed, iters, iterDestroyed, liveValues, infoMap, lastSet, prevRun, faults>>

(***************************************************************************)
(* ControlInfoMap and ControlInfo.  The native map holds, per id, either   *)
(* no entry (the lookup returns null) or an info with its three bounds and *)
(* its array of allowed values.                                            *)
(***************************************************************************)
NoInfo == [present |-> FALSE]

\* Values an info declares: well-formed ones and one that does not decode.
InfoValues == {nv \in NativeValues : nv.type \in {3, 9}}

SeqsUpTo(S, n) == UNION {[1..k -> S] : k \in 0..n}

Infos == [present : {TRUE}, min : InfoValues, max : InfoValues, def : InfoValues,
          values : SeqsUpTo(InfoValues, MaxValues)]

\* libcamera_control_info_map_get: the entry for id, or null.
libcamera_control_info_map_get(map, id) == map[id]

\* A variant of get with a plausible slip: the null check is missing.
ControlInfoMap_get_Unchecked(map, control) ==
    LET info_ptr == libcamera_control_info_map_get(map, control) IN
    Some(info_ptr)

ControlInfoMap_get(map, control) ==
    LET info_ptr == libcamera_control_info_map_get(map, control) IN
    IF info_ptr = NoInfo THEN None ELSE Some(info_ptr)

ControlInfoMapGet(id) ==
    /\ last' = [op |-> "map_get", list |-> "info", id |-> id,
                res |-> ControlInfoMap_get(infoMap, id)]
    /\ UNCHANGED <<lists, owner, destroyed, iters, iterDestroyed, liveValues, infoMap, lastSet, prevRun, faults>>

\* min / max / def: the native query returns a fresh value handle holding
\* the bound (isNull = FALSE) or null; the unwrap panics on null.  The
\* handle is destroyed before the decoded result is returned.
\* A variant of min with a plausible slip: the decode error is propagated
\* with ? before the handle is destroyed.
ControlInfo_min_EarlyReturn(info, isNull) ==
    IF isNull
    THEN [res |-> Panic, created |-> 0, released |-> 0]
    ELSE LET tmp == ControlValue_read(info.min) IN
         [res |-> tmp, created |-> 1, released |-> IF tmp.kind = "Ok" THEN 1 ELSE 0]

ControlInfo_min(info, isNull) ==
    IF isNull
    THEN [res |-> Panic, created |-> 0, released |-> 0]
    ELSE [res |-> ControlValue_read(info.min), created |-> 1, released |-> 1]

ControlInfo_max(info, isNull) ==
    IF isNull
    THEN [res |-> Panic, created |-> 0, released |-> 0]
    ELSE [res |-> ControlValue_read(info.max), created |-> 1, released |-> 1]

ControlInfo_def(info, isNull) ==
    IF isNull
    THEN [res |-> Panic, created |-> 0, released |-> 0]
    ELSE [res |-> ControlValue_read(info.def), created |-> 1, released |-> 1]

\* values: decode the elements of the native array in order; collect stops
\* at the first element that fails and returns its error; the array is
\* freed afterwards in both cases.
\* A variant of values with a plausible slip: the elements are walked with
\* a stride of zero, so every read decodes the first element.
ControlInfo_values_NoStride(info) ==
    LET values_ptr == info.values
        size == Len(values_ptr)
        decoded == [k \in 1..size |-> ControlValue_read(values_ptr[1])]
        bad == {k \in 1..size : decoded[k].kind # "Ok"}
        values == IF bad = {}
                  THEN Ok([k \in 1..size |-> decoded[k].val])
                  ELSE decoded[CHOOSE k \in bad : \A j \in bad : k <= j]
    IN [res |-> values, created |-> 1, released |-> 1]

\* A variant of values with a plausible slip: elements that fail to decode
\* are left out and the rest is returned.
ControlInfo_values_SkipsBad(info) ==
    LET values_ptr == info.values
        size == Len(values_ptr)
        decoded == [k \in 1..size |-> ControlValue_read(values_ptr[k])]
        good == SelectSeq(decoded, LAMBDA d : d.kind = "Ok")
    IN [res |-> Ok([k \in 1..Len(good) |-> good[k].val]), created |-> 1, released |-> 1]

ControlInfo_values(info) ==
    LET values_ptr == info.values
        size == Len(values_ptr)
        decoded == [k \in 1..size |-> ControlValue_read(values_ptr[k])]
        bad == {k \in 1..size : decoded[k].kind # "Ok"}
        values == IF bad = {}
                  THEN Ok([k \in 1..size |-> decoded[k].val])
                  ELSE decoded[CHOOSE k \in bad : \A j \in bad : k <= j]
    IN [res |-> values, created |-> 1, released |-> 1]

ApplyInfo(op, id, out) ==
    /\ liveValues' = liveValues + out.created - out.released
    /\ last' = [op |-> op, list |-> "info", id |-> id, res |-> out.res,
                created |-> out.created, released |-> out.released]
    /\ UNCHANGED <<lists, owner, destroyed, iters, iterDestroyed, infoMap, lastSet, prevRun, faults>>

\* A ControlInfo is reached through the map: the entry exists.
ControlInfoMin(id) ==
    /\ infoMap[id] # NoInfo
    /\ \E isNull \in NullOutcomes : ApplyInfo("min", id, ControlInfo_min(infoMap[id], isNull))

ControlInfoMax(id) ==
    /\ infoMap[id] # NoInfo
    /\ \E isNull \in NullOutcomes : ApplyInfo("max", id, ControlInfo_max(infoMap[id], isNull))

ControlInfoDef(id) ==
    /\ infoMap[id] # NoInfo
    /\ \E isNull \in NullOutcomes : ApplyInfo("def", id, ControlInfo_def(infoMap[id], isNull))

ControlInfoValues(id) ==
    /\ infoMap[id] # NoInfo
    /\ ApplyInfo("values", id, ControlInfo_values(infoMap[id]))

(***************************************************************************)
(* Initial states.  The program holds one list: the owned ControlList it   *)
(* is about to create, or a list borrowed from the native library with     *)
(* whatever the library put in it.                                         *)
(***************************************************************************)

NoList == [alive |-> FALSE, contents |-> <<>>, accepts |-> {}]

Entries == {Entry(id, nv) : id \in Ids, nv \in NativeValues}

\* What a borrowed collection holds when this layer first sees it: nothing,
\* or one entry the native library put there (any id, any native value).
NativeContents == SeqsUpTo(Entries, 1)

\* The ids a borrowed collection accepts writes for: all, or all but one
\* the device does not support.
AcceptSets == {Ids} \cup {Ids \ {id} : id \in Ids}

NoOp == [op |-> "init", list |-> "none", id |-> 0, res |-> None]

InitCommon ==
    /\ destroyed = [l \in Lists |-> 0]
    /\ iters = [i \in IterSlots |-> UnbornIter]
    /\ iterDestroyed = [i \in IterSlots |-> 0]
    /\ liveValues = 0
    /\ last = NoOp
    /\ lastSet = [l \in Lists |-> [id \in Ids |-> NoSet]]
    /\ prevRun = [l \in Lists |-> NoRun]

\* The program holds one list.
InitList ==
    /\ InitCommon
    /\ \E l \in Lists :
         /\ owner = [k \in Lists |-> IF k # l THEN "absent"
                                     ELSE IF IsOwned(l) THEN "none" ELSE "held"]
         /\ \E c \in NativeContents, a \in AcceptSets :
              lists = [k \in Lists |-> IF k = l /\ ~IsOwned(l)
                                       THEN [alive |-> TRUE, contents |-> c, accepts |-> a]
                                       ELSE NoList]

Init ==
    /\ InitList
    /\ infoMap = [id \in Ids |-> NoInfo]
    /\ faults = FALSE

Next ==
    \/ \E l \in Lists : ControlListNew(l)
    \/ \E l \in Lists : UniquePtrDrop(l)
    \/ \E l \in Lists : BorrowEnd(l)
    \/ \E l \in Lists, C \in Controls : ControlListGet(l, C)
    \/ \E l \in Lists, C \in Properties : PropertyListGet(l, C)
    \/ \E l \in Lists, C \in Controls, v \in Payloads : ControlListSet(l, C, v)
    \/ \E l \in Lists, C \in Properties, v \in Payloads : PropertyListSet(l, C, v)
    \/ \E l \in Lists, i \in IterSlots : ControlListIntoIter(l, i)
    \/ \E l \in Lists, i \in IterSlots : PropertyListIntoIter(l, i)
    \/ \E i \in IterSlots : IteratorNext(i)
    \/ \E i \in IterSlots : IteratorDrop(i)

Spec == Init /\ [][Next]_vars

(***************************************************************************)
(* The info side: the program holds a ControlInfoMap of the native         *)
(* library and queries it.                                                 *)
(***************************************************************************)
InitInfo ==
    /\ InitCommon
    /\ faults = FALSE
    /\ owner = [l \in Lists |-> "absent"]
    /\ lists = [l \in Lists |-> NoList]
    /\ \/ infoMap = [id \in Ids |-> NoInfo]
       \/ \E k \in Ids, info \in Infos :
            infoMap = [id \in Ids |-> IF id = k THEN info ELSE NoInfo]

NextInfo ==
    \/ \E id \in Ids : ControlInfoMapGet(id)
    \/ \E id \in Ids : ControlInfoMin(id)
    \/ \E id \in Ids : ControlInfoMax(id)
    \/ \E id \in Ids : ControlInfoDef(id)
    \/ \E id \in Ids : ControlInfoValues(id)

SpecInfo == InitInfo /\ [][NextInfo]_vars

(***************************************************************************)
(* The same program against a native library that can run out of          *)
(* resources: every call that returns a handle may return null.            *)
(***************************************************************************)
SampleInfo == [present |-> TRUE, min |-> [type |-> 3, data |-> 0],
               max |-> [type |-> 3, data |-> MaxVal], def |-> [type |-> 9, data |-> 0],
               values |-> <<[type |-> 3, data |-> 0]>>]

InitFault ==
    /\ InitList
    /\ infoMap = [id \in Ids |-> IF id = 1 THEN SampleInfo ELSE NoInfo]
    /\ faults = TRUE

NextFault == Next \/ NextInfo

SpecFault == InitFault /\ [][NextFault]_vars

(***************************************************************************)
(* The program holding a list and an info map at once, against a native    *)
(* library that never returns a null handle.  The map has one entry whose  *)
(* bounds and values all decode and one whose min and second allowed value *)
(* do not.                                                                 *)
(***************************************************************************)
BrokenInfo == [present |-> TRUE, min |-> [type |-> 9, data |-> 0],
               max |-> [type |-> 3, data |-> MaxVal], def |-> [type |-> 3, data |-> 0],
               values |-> <<[type |-> 3, data |-> MaxVal], [type |-> 9, data |-> 0]>>]

\* The list it holds starts empty and accepts every id.
InitAlloc ==
    /\ InitCommon
    /\ \E l \in Lists :
         /\ owner = [k \in Lists |-> IF k # l THEN "absent"
                                     ELSE IF IsOwned(l) THEN "none" ELSE "held"]
         /\ lists = [k \in Lists |-> IF k = l /\ ~IsOwned(l)
                                     THEN ControlList_ptr_new ELSE NoList]
    /\ infoMap = [id \in Ids |-> IF id = 1 THEN SampleInfo ELSE BrokenInfo]
    /\ faults = FALSE

SpecAlloc == InitAlloc /\ [][NextFault]_vars

TypeOK ==
    /\ liveValues \in Nat
    /\ \A l \in Lists : owner[l] \in {"absent", "none", "held", "dropped"}
    /\ \A i \in IterSlots : iters[i].state \in {"unborn", "active", "dropped"}

(***************************************************************************)
(* Helpers of the claims.                                                  *)
(***************************************************************************)
\* The typed entry a list of l's kind reads and writes under id.
EntryType(l, id) ==
    CHOOSE T \in (IF ListKind(l) = "ControlList" THEN Controls ELSE Properties) : T.ID = id

\* The (identifier, value) pairs a list holds, decoded, in native order.
StoredPairs(contents) ==
    [k \in 1..Len(contents) |-> <<contents[k].id, ControlValue_read(contents[k].val).val>>]

LastIsGet == last.op = "get"
LastList == lists[last.list]

(***************************************************************************)
(* C1: get after set returns the value that was set.  In every reachable   *)
(* state whose last operation is a get::<T>() on a list, if a set::<T>(v)  *)
(* on the same list returned before it with no later set of T::ID, and the *)
(* native collection accepts T::ID, the get returned Ok(v).                *)
(***************************************************************************)
C1_GetAfterSet ==
    (/\ LastIsGet
     /\ lastSet[last.list][last.id].set
     /\ last.id \in LastList.accepts)
    => last.res = Ok(lastSet[last.list][last.id].val)

\* A get answered Ok(v) after a set of v, on a list that earlier held a
\* value of another type under that id or nothing at all.
C1_Witness ==
    /\ LastIsGet
    /\ lastSet[last.list][last.id].set
    /\ last.id \in LastList.accepts
    /\ last.res = Ok(lastSet[last.list][last.id].val)
    /\ Len(LastList.contents) = Cardinality(Ids)

(***************************************************************************)
(* C2: get on a list with no entry under T::ID returns NotFound(T::ID).    *)
(* In every reachable state whose last operation is a get::<T>(), if the   *)
(* list holds no entry under T::ID (the native lookup returns null), the   *)
(* result is NotFound carrying exactly T::ID.  (get leaves the list as it  *)
(* was, so the list after the call is the list the call saw.)              *)
(***************************************************************************)
C2_GetNotFound ==
    (LastIsGet /\ libcamera_control_list_get(LastList.contents, last.id) = 0)
    => last.res = NotFound(last.id)

\* NotFound from a list that is not empty, after a set of another id.
C2_Witness ==
    /\ LastIsGet
    /\ last.res = NotFound(last.id)
    /\ LastList.contents # <<>>
    /\ \E id \in Ids : lastSet[last.list][id].set

(***************************************************************************)
(* C3: get on a list holding, under T::ID, a value whose tag is not the    *)
(* tag T expects returns a ValueError: never Ok with some value, never     *)
(* NotFound.                                                               *)
(***************************************************************************)
C3_GetTagMismatch ==
    LET k == libcamera_control_list_get(LastList.contents, last.id) IN
    (/\ LastIsGet
     /\ k # 0
     /\ LastList.contents[k].val.type # TypeCode(EntryType(last.list, last.id).tag))
    => last.res.kind = "ValueError"

\* A get that met a well-formed value of another type and reported the
\* mismatch.
C3_Witness ==
    LET k == libcamera_control_list_get(LastList.contents, last.id) IN
    /\ LastIsGet
    /\ k # 0
    /\ LastList.contents[k].val.type \in KnownCodes
    /\ LastList.contents[k].val.type # TypeCode(EntryType(last.list, last.id).tag)
    /\ last.res = ValueError([expected |-> EntryType(last.list, last.id).tag,
                              found |-> TagOf(LastList.contents[k].val.type)])

(***************************************************************************)
(* C4: a complete iteration yields every stored pair exactly once.  In     *)
(* every reachable state whose last operation is a next() that returned    *)
(* None, the pairs that iterator yielded are exactly the N pairs the list  *)
(* holds; and a next() on an iterator over an empty list returned None.    *)
(***************************************************************************)
C4_IterationComplete ==
    /\ (last.op = "next" /\ last.res = None)
         => iters[last.id].yielded = StoredPairs(LastList.contents)
    /\ (last.op = "next" /\ LastList.contents = <<>>) => last.res = None

\* An iteration over a list of two pairs that ran to its end.
C4_Witness ==
    /\ last.op = "next"
    /\ last.res = None
    /\ Len(iters[last.id].yielded) = Cardinality(Ids)
    /\ iters[last.id].yielded = StoredPairs(LastList.contents)

(***************************************************************************)
(* C5: the native cursor of a dropped iterator is destroyed exactly once.  *)
(* In every reachable state an iterator that was dropped (never advanced,  *)
(* partly consumed, exhausted, or after next() panicked) has had its       *)
(* cursor destroyed once, a live one not at all; the drop leaves the list  *)
(* alive, and an iterator created afterwards that runs to its end yields   *)
(* the full contents.                                                      *)
(***************************************************************************)
C5_CursorDestroyedOnce ==
    /\ \A i \in IterSlots :
         /\ iters[i].state = "dropped" => iterDestroyed[i] = 1
         /\ iters[i].state \in {"unborn", "active"} => iterDestroyed[i] = 0
    /\ last.op = "drop_iter" => (LastList.alive /\ destroyed[last.list] = 0)
    /\ (last.op = "next" /\ last.res = None /\ iters[last.id].reused)
         => iters[last.id].yielded = StoredPairs(LastList.contents)

\* An iterator dropped while unwinding from a decode failure in next().
C5_Witness ==
    /\ last.op = "drop_iter"
    /\ last.phase = "unwinding"
    /\ iters[last.id].state = "dropped"
    /\ iterDestroyed[last.id] = 1

(***************************************************************************)
(* C6: every fallible operation returns a result value for every outcome   *)
(* of the native layer, a null handle included; only a decode failure      *)
(* inside next() may abort.  As a state predicate: an operation that       *)
(* panicked is a next().                                                   *)
(***************************************************************************)
C6_OnlyNextAborts == last.res = Panic => last.op = "next"

(***************************************************************************)
(* C7: set returns Ok(()) for every list state, every typed entry and      *)
(* every value, also when the native collection ignores the write; it      *)
(* never returns an Err.  In every reachable state whose last operation is *)
(* a set, the result is Ok(()).                                            *)
(***************************************************************************)
C7_SetAlwaysOk == last.op = "set" => last.res = Ok(<<>>)

\* A set returned Ok for an id the native collection does not accept, and
\* the get that followed did not return the value: Ok from set does not
\* imply that get returns v.
C7_Witness ==
    /\ LastIsGet
    /\ lastSet[last.list][last.id].set
    /\ last.id \notin LastList.accepts
    /\ last.res = NotFound(last.id)

(***************************************************************************)
(* C8: ControlInfoMap::get(id) returns None exactly when the native map    *)
(* has no entry for id and Some(view of the entry) exactly when it has     *)
(* one; it never panics, and no step changes the map.                      *)
(***************************************************************************)
C8_InfoMapGet ==
    /\ [](last.op = "map_get" =>
            /\ (infoMap[last.id] = NoInfo <=> last.res = None)
            /\ (infoMap[last.id] # NoInfo <=> last.res = Some(infoMap[last.id])))
    /\ [][infoMap' = infoMap]_vars

\* Both answers of one map: an absent id and a present one.
C8_Witness ==
    /\ last.op = "map_get"
    /\ last.res = Some(infoMap[last.id])
    /\ last.res.val.present
    /\ \E id \in Ids : infoMap[id] = NoInfo

(***************************************************************************)
(* C9: values() on an info whose native array has K elements, all          *)
(* decodable, returns Ok of exactly K values, the i-th the decode of the   *)
(* i-th element; Ok of the empty sequence for K = 0.                       *)
(***************************************************************************)
C9_ValuesInOrder ==
    LET vs == infoMap[last.id].values IN
    (last.op = "values" /\ \A k \in 1..Len(vs) : ControlValue_read(vs[k]).kind = "Ok")
    => /\ last.res = Ok([k \in 1..Len(vs) |-> ControlValue_read(vs[k]).val])
       /\ Len(last.res.val) = Len(vs)
       /\ (Len(vs) = 0 => last.res = Ok(<<>>))

\* An array of the largest length with different elements, decoded in order.
C9_Witness ==
    LET vs == infoMap[last.id].values IN
    /\ last.op = "values"
    /\ Len(vs) = MaxValues
    /\ vs[1] # vs[Len(vs)]
    /\ last.res.kind = "Ok"
    /\ \A k \in 1..Len(vs) : last.res.val[k] = [tag |-> "Int32", val |-> vs[k].data]

(***************************************************************************)
(* C10: the native collection of an owned list is destroyed exactly once,  *)
(* at its owner's teardown; a borrowed list is never destroyed by this     *)
(* layer.  In every reachable state the destroy count of a borrowed list   *)
(* is 0, and that of the owned list is 1 if its owner was dropped and 0    *)
(* otherwise.                                                              *)
(***************************************************************************)
C10_DestroyedByOwnerOnly ==
    \A l \in Lists :
        /\ ~IsOwned(l) => (destroyed[l] = 0 /\ (owner[l] # "absent" => lists[l].alive))
        /\ IsOwned(l) => destroyed[l] = (IF owner[l] = "dropped" THEN 1 ELSE 0)
        /\ IsOwned(l) => (lists[l].alive <=> owner[l] = "held")

\* The owner of a list that was written to has been dropped.
C10_Witness ==
    /\ owner["owned"] = "dropped"
    /\ destroyed["owned"] = 1
    /\ lists["owned"].contents # <<>>
    /\ last.op = "drop_list"

\* C11: every operation that returns has released each transient native
\* allocation it made exactly once (the value handle of min/max/def and of
\* set, the array of values), whether the decode succeeded or failed, and no
\* transient allocation is live between operations.
TransientOps == {"min", "max", "def", "values", "set"}

C11_TransientsReleased ==
    /\ liveValues = 0
    /\ (last.op \in TransientOps /\ last.res # Panic)
          => (last.created = 1 /\ last.released = 1)

\* A values call whose second element failed to decode has returned, after
\* a set on the list.
C11_Witness ==
    /\ last.op = "values"
    /\ last.res.kind = "ValueError"
    /\ last.released = 1
    /\ liveValues = 0
    /\ \E l \in Lists, id \in Ids : lastSet[l][id] # NoSet

\* The iterator in slot i is alive and its native cursor is past the last
\* entry: the state next() finds and leaves when it returns None.
AtEnd(i) ==
    /\ iters[i].state = "active"
    /\ libcamera_control_list_iter_end(lists[iters[i].list].contents, iters[i].pos)

\* C12: an iterator whose next() returned None is exhausted for good: it is
\* at the end whenever next() has just returned None, and from then until
\* it is dropped every step leaves its cursor and what it yielded as they
\* are and every next() on it returns None again.
C12_ExhaustedStays ==
    /\ []((last.op = "next" /\ last.res = None) => AtEnd(last.id))
    /\ [][\A i \in IterSlots :
            (AtEnd(i) /\ iters'[i].state = "active")
              => /\ iters'[i] = iters[i]
                 /\ AtEnd(i)'
                 /\ (last'.op = "next" /\ last'.id = i) => last'.res = None]_vars

\* next() returned None on an iterator that yielded two pairs; the iterator
\* is alive, so next() can be called on it again.
C12_Witness ==
    /\ last.op = "next"
    /\ last.res = None
    /\ AtEnd(last.id)
    /\ Len(iters[last.id].yielded) = 2

\* The positions of the entries stored under id, and the native values
\* stored there.
IndicesOf(contents, id) == {k \in DOMAIN contents : contents[k].id = id}

StoredUnder(contents, id) == {contents[k].val : k \in IndicesOf(contents, id)}

\* C13 as stated: every set leaves exactly one entry under its id, adds at
\* most one entry and leaves the value under every other id as it was.
C13_SetFrame ==
    [][last'.op = "set" =>
         LET l == last'.list
             id == last'.id
             before == lists[l].contents
             after == lists'[l].contents
         IN  /\ Cardinality(IndicesOf(after, id)) = 1
             /\ Len(after) <= Len(before) + 1
             /\ \A o \in Ids \ {id} : StoredUnder(after, o) = StoredUnder(before, o)]_vars

\* C13, amended: a set of an id the native collection accepts leaves exactly
\* one entry under that id, holding the encoded value; a set of an id it
\* does not accept leaves the contents as they were; in both cases the
\* number of entries grows by at most one and the value under every other
\* id is as it was.
C13_SetFrameAccepted ==
    [][last'.op = "set" =>
         LET l == last'.list
             id == last'.id
             before == lists[l].contents
             after == lists'[l].contents
             written == ControlValue_write(into(EntryType(l, id), lastSet'[l][id].val))
         IN  /\ id \in lists[l].accepts
                  => /\ Cardinality(IndicesOf(after, id)) = 1
                     /\ StoredUnder(after, id) = {written}
             /\ id \notin lists[l].accepts => after = before
             /\ Len(before) <= Len(after)
             /\ Len(after) <= Len(before) + 1
             /\ \A o \in Ids \ {id} : StoredUnder(after, o) = StoredUnder(before, o)]_vars

\* A set inserted a second entry next to one the native library had put in
\* the list under the other id.
C13_Witness ==
    /\ last.op = "set"
    /\ last.res = Ok(<<>>)
    /\ Len(LastList.contents) = 2
    /\ last.id \in LastList.accepts
    /\ \E o \in Ids \ {last.id} : lastSet[last.list][o] = NoSet

\* C14: a complete iteration of a list yields the same pairs in the same
\* order as the complete iteration of the same list before it, when no set
\* was applied to the list in between.
C14_IterationsAgree ==
    (last.op = "next" /\ last.res = None /\ prevRun[last.list].done)
      => iters[last.id].yielded = prevRun[last.list].pairs

\* A second iterator over a list of two entries has just returned None; the
\* first was run to its end and dropped, and no set came in between.
C14_Witness ==
    /\ last.op = "next"
    /\ last.res = None
    /\ prevRun[last.list].done
    /\ Len(prevRun[last.list].pairs) = 2
    /\ iters[last.id].reused

\* The positions of the allowed values of info that do not decode.
BadValues(info) ==
    {k \in 1..Len(info.values) : ControlValue_read(info.values[k]).kind # "Ok"}

\* C15: when some element of the allowed-values array does not decode,
\* values() returns the decode error of the first such element and no
\* sequence, and the native array has been released exactly once.
C15_ValuesFailWhole ==
    (last.op = "values" /\ BadValues(infoMap[last.id]) # {})
      => LET info == infoMap[last.id]
             first == CHOOSE k \in BadValues(info) : \A j \in BadValues(info) : k <= j
         IN  /\ last.res.kind = "ValueError"
             /\ last.res = ControlValue_read(info.values[first])
             /\ last.created = 1
             /\ last.released = 1
             /\ liveValues = 0

\* values() was called on an info whose first allowed value decodes and
\* whose second does not.
C15_Witness ==
    /\ last.op = "values"
    /\ BadValues(infoMap[last.id]) = {2}
    /\ last.res.kind = "ValueError"

\* The cursor of the live iterator in slot i stands on an entry whose value
\* does not decode.
AtUndecodable(i) ==
    LET contents == lists[iters[i].list].contents IN
    /\ iters[i].state = "active"
    /\ ~libcamera_control_list_iter_end(contents, iters[i].pos)
    /\ ControlValue_read(contents[iters[i].pos].val).kind # "Ok"

\* C16: a next() called with the cursor on an entry that does not decode
\* aborts: it returns neither a pair nor an error value, and it leaves the
\* cursor on that entry and the pairs yielded so far as they were.
C16_DecodeFailureAborts ==
    [][(last'.op = "next" /\ AtUndecodable(last'.id))
         => /\ last'.res = Panic
            /\ iters'[last'.id] = iters[last'.id]]_vars

\* next() aborted on the second entry of a list after yielding the first.
C16_Witness ==
    /\ last.op = "next"
    /\ last.res = Panic
    /\ AtUndecodable(last.id)
    /\ iters[last.id].pos = 2
    /\ Len(iters[last.id].yielded) = 1

\* C17: while an iterator is alive its list is alive and held, holds what it
\* held when the iterator was created, and what the iterator yielded is
\* the decoded entries before its cursor; no set has just been applied to
\* a list that an iterator borrows; and when a cursor has just been
\* released its list was not destroyed.
C17_IterationIsolated ==
    /\ \A i \in IterSlots :
         iters[i].state = "active" =>
           LET it == iters[i]
               l == it.list
           IN  /\ lists[l].alive
               /\ owner[l] = "held"
               /\ destroyed[l] = 0
               /\ lists[l].contents = it.snapshot
               /\ it.pos = Len(it.yielded) + 1
               /\ it.yielded = [k \in 1..Len(it.yielded) |->
                                  <<it.snapshot[k].id, ControlValue_read(it.snapshot[k].val).val>>]
    /\ last.op = "set" => ~Borrowed(last.list)
    /\ last.op = "drop_list" => ~Borrowed(last.list)
    /\ last.op = "drop_iter" => (destroyed[last.list] = 0 /\ owner[last.list] = "held")

\* An iterator created after a set has yielded both entries of its list and
\* is still alive.
C17_Witness ==
    \E i \in IterSlots :
      /\ iters[i].state = "active"
      /\ Len(iters[i].yielded) = 2
      /\ Len(iters[i].snapshot) = 2
      /\ \E id \in Ids : lastSet[iters[i].list][id] # NoSet

\* C18: get, into_iter and next only read the list: whatever they return,
\* the native collections hold the same entries with the same values
\* afterwards, nothing of a list is destroyed and no transient handle is
\* created or released.
ReadOps == {"get", "into_iter", "next"}

C18_ReadsAreReadOnly ==
    [][last'.op \in ReadOps
         => /\ lists' = lists
            /\ destroyed' = destroyed
            /\ liveValues' = liveValues]_vars

\* A get that failed on the tag of a stored value, on a list of two entries.
C18_Witness ==
    /\ last.op = "get"
    /\ last.res.kind = "ValueError"
    /\ Len(LastList.contents) = 2
    /\ libcamera_control_list_get(LastList.contents, last.id) # 0

\* The native calls an operation makes, in order: the function and the
\* identifier, pointer or type code it is given.
Call(fn, arg) == [fn |-> fn, arg |-> arg]

ControlList_get_calls(lst, C) ==
    LET val_ptr == libcamera_control_list_get(lst.contents, C.ID) IN
    <<Call("libcamera_control_list_get", C.ID)>>
      \o (IF val_ptr = 0 THEN <<>> ELSE <<Call("ControlValue::read", val_ptr)>>)

ControlList_set_calls(C, v, val_ptr) ==
    <<Call("libcamera_control_value_create", 0)>>
      \o (IF val_ptr = 0 THEN <<>>
          ELSE <<Call("ControlValue::write", ControlValue_write(into(C, v)).type),
                 Call("libcamera_control_list_set", C.ID),
                 Call("libcamera_control_value_destroy", val_ptr)>>)

ControlList_into_iter_calls == <<Call("libcamera_control_list_iter", 0)>>

PropertyList_get_calls(lst, C) ==
    LET val_ptr == libcamera_control_list_get(lst.contents, C.ID) IN
    <<Call("libcamera_control_list_get", C.ID)>>
      \o (IF val_ptr = 0 THEN <<>> ELSE <<Call("ControlValue::read", val_ptr)>>)

PropertyList_set_calls(C, v, val_ptr) ==
    <<Call("libcamera_control_value_create", 0)>>
      \o (IF val_ptr = 0 THEN <<>>
          ELSE <<Call("ControlValue::write", ControlValue_write(into(C, v)).type),
                 Call("libcamera_control_list_set", C.ID),
                 Call("libcamera_control_value_destroy", val_ptr)>>)

PropertyList_into_iter_calls == <<Call("libcamera_control_list_iter", 0)>>

\* Control and Property are marker capabilities over the same typed-entry
\* protocol: the two lists are compared on every typed entry.
TypedEntries == Controls \cup Properties

\* The operations that give a list its contents: the list state is new
\* after them and the same until the next of them.
WriteOps == {"init", "new", "set"}

\* C19: on every list state the program reaches, ControlList and
\* PropertyList give the same result for every get, the same outcomes
\* (result, contents afterwards, handles created and released) for every
\* set and the same iterator for every into_iter, and make the same native
\* calls in the same order; so the same operations from the same contents
\* give the same results and the same final contents.  The comparison is
\* made where the list state is new.
C19_ListsEquivalent ==
    \A l \in Lists :
      (owner[l] = "held" /\ last.op \in WriteOps) =>
        \A T \in TypedEntries :
          /\ ControlList_get(lists[l], T) = PropertyList_get(lists[l], T)
          /\ ControlList_get_calls(lists[l], T) = PropertyList_get_calls(lists[l], T)
          /\ \A v \in Payloads :
               /\ ControlList_set(lists[l], T, v) = PropertyList_set(lists[l], T, v)
               /\ \A val_ptr \in HandleOutcomes :
                    ControlList_set_calls(T, v, val_ptr) = PropertyList_set_calls(T, v, val_ptr)
          /\ \A it \in HandleOutcomes :
               ControlList_into_iter(l, it) = PropertyList_into_iter(l, it)
          /\ ControlList_into_iter_calls = PropertyList_into_iter_calls

\* A PropertyList holds two entries after a set, and a get on it succeeds
\* the same way under either list type.
C19_Witness ==
    /\ owner["props"] = "held"
    /\ last.op = "set"
    /\ last.list = "props"
    /\ Len(lists["props"].contents) = 2
    /\ \E T \in TypedEntries :
         /\ PropertyList_get(lists["props"], T).kind = "Ok"
         /\ ControlList_get(lists["props"], T) = PropertyList_get(lists["props"], T)

=============================================================================
